---- MODULE Spec2Model ----
(***************************************************************************)
(* State-machine model of UCesiumCustomGlobeAnchorComponent               *)
(* (Source/CesiumRuntime/Private/CesiumCustomGlobeAnchorComponent.cpp).    *)
(*                                                                         *)
(* Doubles are modelled as integers, glm::dmat4 as a tuple of four        *)
(* columns of four entries (column-major, as glm: M[4] is the translation *)
(* column the source writes _worldToECEF[3]).  Pointers are small         *)
(* integers, None being the null pointer.  Every handler of the component *)
(* is an operator from a state record to a state record; an action of the *)
(* specification runs one whole handler, including every nested call.     *)
(***************************************************************************)
EXTENDS Integers, Sequences, FiniteSets

----------------------------------------------------------------------------
(* Bounds of the model *)

\* operations and world events in one behaviour
MaxSteps == 3
\* depth of nested calls after which the call stack is exhausted
MaxStack == 12
\* georeference origins are numbered 0..MaxOrigin
MaxOrigin == 1
\* placements of a tileset actor are numbered 0..MaxPlacement
MaxPlacement == 1
\* origin rebasing moves the world origin inside 0..MaxRebase (x axis)
MaxRebase == 1
\* movement targets and editor inputs are numbered 0..MaxTarget
MaxTarget == 1

----------------------------------------------------------------------------
(* Vectors and matrices (glm::dvec3, glm::dvec4, glm::dmat4) *)

None == 0

Vec4(v, w) == <<v[1], v[2], v[3], w>>
Vec3(c) == <<c[1], c[2], c[3]>>
ZeroVector == <<0, 0, 0>>

Identity == << <<1, 0, 0, 0>>, <<0, 1, 0, 0>>, <<0, 0, 1, 0>>, <<0, 0, 0, 1>> >>
ZeroMatrix == << <<0, 0, 0, 0>>, <<0, 0, 0, 0>>, <<0, 0, 0, 0>>, <<0, 0, 0, 0>> >>

\* M * v for a column vector v
MulVec(M, v) ==
  LET e(r) == M[1][r] * v[1] + M[2][r] * v[2] + M[3][r] * v[3] + M[4][r] * v[4]
  IN <<e(1), e(2), e(3), e(4)>>

\* the matrix product A * B
Mul(A, B) == <<MulVec(A, B[1]), MulVec(A, B[2]), MulVec(A, B[3]), MulVec(A, B[4])>>

\* an affine matrix from its three linear columns and its translation
Affine(c1, c2, c3, t) == <<Vec4(c1, 0), Vec4(c2, 0), Vec4(c3, 0), Vec4(t, 1)>>

\* quarter turn about the z axis: x -> y, y -> -x
RotZ(t) == Affine(<<0, 1, 0>>, <<-1, 0, 0>>, <<0, 0, 1>>, t)

\* inverse of an affine matrix whose linear block is orthogonal:
\* linear block transposed, translation -L^T t
AffineInverse(M) ==
  LET row(r) == <<M[1][r], M[2][r], M[3][r]>>
      dot(a, b) == a[1] * b[1] + a[2] * b[2] + a[3] * b[3]
      t == Vec3(M[4])
  IN Affine(row(1), row(2), row(3),
            <<0 - dot(Vec3(M[1]), t), 0 - dot(Vec3(M[2]), t), 0 - dot(Vec3(M[3]), t)>>)

----------------------------------------------------------------------------
(* Single precision (FVector, FMatrix, FTransform) *)

\* integers up to 2^24 are exact in an IEEE single
SingleExactMax == 16777216

\* double -> float on integers below 2^25: beyond 2^24 only even numbers
\* exist, and an odd one rounds to the neighbour with an even mantissa
createFloat(x) ==
  LET a == IF x < 0 THEN 0 - x ELSE x
      r == IF a <= SingleExactMax \/ a % 2 = 0 THEN a
           ELSE IF (a - 1) % 4 = 0 THEN a - 1 ELSE a + 1
  IN IF x < 0 THEN 0 - r ELSE r

\* VecMath::createVector: glm::dvec3 -> FVector
createVector(v) == <<createFloat(v[1]), createFloat(v[2]), createFloat(v[3])>>

\* VecMath::createVector3D: FVector -> glm::dvec3 (exact)
createVector3D(v) == v

\* VecMath::createMatrix / FTransform(FMatrix): glm::dmat4 -> single precision
createMatrix(M) ==
  LET column(c) == <<createFloat(c[1]), createFloat(c[2]), createFloat(c[3]),
                     createFloat(c[4])>>
  IN <<column(M[1]), column(M[2]), column(M[3]), column(M[4])>>

\* VecMath::createMatrix4D: FMatrix -> glm::dmat4 (exact)
createMatrix4D(M) == M

----------------------------------------------------------------------------
(* The world the component lives in: georeferences, tilesets, the owner *)

\* G1 is the georeference tileset T1 refers to; G2 is the level's default
\* georeference (ACesiumGeoreference::GetDefaultGeoreference)
Georeferences == {1, 2}
Tilesets == {1, 2}
\* actor tags; NoTag is NAME_None
NoTag == 0
Tags == {0, 1}

\* ACesium3DTileset::GetGeoreference: the tileset's Georeference property,
\* null for a tileset that was given none (T2)
TilesetGeoreference(t) == IF t = 1 THEN 1 ELSE None

\* AActor::ActorHasTag: tileset T1 carries tag 1, T2 carries no tag;
\* NAME_None matches nothing
ActorHasTag(t, tag) == tag # NoTag /\ tag = 1 /\ t = 1

\* semi-major axis of the WGS84 ellipsoid, in metres
EllipsoidRadius == 6378137

\* GeoTransforms::TransformLongitudeLatitudeHeightToEcef, linearised at
\* longitude = latitude = 0: a bijection that is not the identity
TransformLongitudeLatitudeHeightToEcef(llh) ==
  <<EllipsoidRadius + llh[3], llh[1], llh[2]>>

\* GeoTransforms::TransformEcefToLongitudeLatitudeHeight, its inverse
TransformEcefToLongitudeLatitudeHeight(ecef) ==
  <<ecef[2], ecef[3], ecef[1] - EllipsoidRadius>>

\* the ECEF position of georeference g's origin when its origin is number k
GeoreferenceOriginEcef(g, k) == <<EllipsoidRadius + 10 * g + k, 2, 3>>

\* GeoTransforms::GetAbsoluteUnrealWorldToEllipsoidCenteredTransform
GetAbsoluteUnrealWorldToEllipsoidCenteredTransform(g, k) ==
  RotZ(GeoreferenceOriginEcef(g, k))

\* GeoTransforms::GetEllipsoidCenteredToAbsoluteUnrealWorldTransform
GetEllipsoidCenteredToAbsoluteUnrealWorldTransform(g, k) ==
  AffineInverse(GetAbsoluteUnrealWorldToEllipsoidCenteredTransform(g, k))

\* the transform of a tileset actor in placement number k
TilesetPlacement(k) == IF k = 0 THEN Identity ELSE RotZ(<<0, 0, k>>)

\* a transform some other code gives the owning actor
ActorPlacement(k) == Affine(<<1, 0, 0>>, <<0, 1, 0>>, <<0, 0, 1>>, <<k, 2, 0>>)

\* the ECEF targets of MoveToECEF and of the editor, on one line through
\* longitude 2, latitude 3; the last one is not representable in single
\* precision
EcefTarget(k) ==
  IF k = MaxTarget THEN <<SingleExactMax + 1, 2, 3>>
  ELSE <<EllipsoidRadius + 1000 * k, 2, 3>>

\* the geodetic targets of MoveToLongitudeLatitudeHeight and of the editor:
\* the same points
LlhTarget(k) == TransformEcefToLongitudeLatitudeHeight(EcefTarget(k))

----------------------------------------------------------------------------
(* State *)

VARIABLES
  \* --- UCesiumCustomGlobeAnchorComponent (UPROPERTYs and members)
  Tileset,                \* ACesium3DTileset* Tileset
  Georeference,           \* ACesiumGeoreference* Georeference
  TilesetTag,             \* FName TilesetTag
  ResolvedGeoreference,   \* ACesiumGeoreference* ResolvedGeoreference
  ResolvedTileset,        \* ACesium3DTileset* ResolvedTileset
  Longitude, Latitude, Height,
  ECEF_X, ECEF_Y, ECEF_Z,
  _worldToECEF,           \* glm::dmat4& over _worldToECEF_Array
  _worldToECEFIsValid,
  registered,             \* between OnRegister and OnUnregister
  \* --- delegates of other objects that hold this component
  OnGeoreferenceUpdated,  \* georeferences whose event lists _onGeoreferenceChanged
  TransformUpdated,       \* per tileset root: entries calling _onGlobeTransformChanged
  \* --- the world
  georeferenceOrigin,     \* per georeference: the number of its current origin
  tilesetTransform,       \* per tileset actor: its root component's transform
  actorTransform,         \* the owner's root component's transform
  OriginLocation,         \* UWorld::OriginLocation (x axis)
  defaultGeoreference,    \* what GetDefaultGeoreference finds or creates, or None
  owner,                  \* "none": no valid owner; "noroot": owner without root;
                          \* "actor": a plain actor; "tileset": the owner is T1
  \* --- observation
  crashed,                \* the process ended inside the operation (stack
                          \* exhaustion, null dereference): it did not return
  undefined,              \* the operation ran through a null dereference and
                          \* returned: nothing is known of what follows
  steps,                  \* operations and events so far
  op,                     \* the operation that ran last, with its inputs
                          \* and the validity flag it found
  ret,                    \* what it returned
  pushed,                 \* its SetWorldTransform calls on the owner's root
  reentered               \* a handler of the component ran inside one of them

component == <<Tileset, Georeference, TilesetTag, ResolvedGeoreference,
               ResolvedTileset,
               Longitude, Latitude, Height, ECEF_X, ECEF_Y, ECEF_Z,
               _worldToECEF, _worldToECEFIsValid, registered>>
delegates == <<OnGeoreferenceUpdated, TransformUpdated>>
world == <<georeferenceOrigin, tilesetTransform, actorTransform, OriginLocation,
           defaultGeoreference, owner>>
observation == <<crashed, undefined, steps, op, ret, pushed, reentered>>
vars == <<component, delegates, world, observation>>

----------------------------------------------------------------------------
(* The handlers, as operators on a record s of everything they read or    *)
(* write.  d is the depth of the call stack inside the cycle              *)
(* ResolveGeoreference -> _onGeoreferenceChanged ->                       *)
(* _updateActorTransformFromGlobeTransform -> SetWorldTransform -> ...    *)
(* A handler called on a crashed state does nothing: the process is gone. *)

IsValid(p) == p # None

\* an operation can start
Running == ~crashed /\ ~undefined /\ steps < MaxSteps

Crash(s) == [s EXCEPT !.crashed = TRUE]

\* AActor::GetOwner / IsValid(pAnchorOwner)
OwnerIsValid == owner # "none"
\* pAnchorOwner->GetRootComponent() / IsValid(pAnchorOwnerRoot)
OwnerRootIsValid == owner \in {"actor", "tileset"}
\* the tileset actor that is the owner, if it is one
OwnerTileset == IF owner = "tileset" THEN 1 ELSE None

\* a tileset's placement as it was at first, not as it is now
GetTransform_readOnce(s, t) ==
  IF t = OwnerTileset THEN s.actorTransform ELSE TilesetPlacement(0)

\* ACesium3DTileset::GetTransform: the root component's transform
GetTransform(s, t) ==
  IF t = OwnerTileset THEN s.actorTransform ELSE s.tilesetTransform[t]

\* CesiumActors::getWorldOrigin4D: the world's OriginLocation
getWorldOrigin4D == <<OriginLocation, 0, 0, 1>>

\* what a transform listener of the owner's root can read at a push
Snapshot(s, t) ==
  [transform |-> t,
   globe |-> s.worldToECEF,
   ECEF |-> <<s.ECEF_X, s.ECEF_Y, s.ECEF_Z>>,
   LLH |-> <<s.Longitude, s.Latitude, s.Height>>]

RECURSIVE ResolveGeoreference(_, _)
RECURSIVE _onGeoreferenceChanged(_, _)
RECURSIVE _onGlobeTransformChanged(_, _)
RECURSIVE _updateActorTransformFromGlobeTransform(_, _)
RECURSIVE SetWorldTransform(_, _, _)
RECURSIVE BroadcastTransformUpdated(_, _, _, _)

\* TransformUpdated.Broadcast on tileset t's root: n entries call the handler
BroadcastTransformUpdated(s, t, n, d) ==
  IF n = 0 \/ s.crashed THEN s
  ELSE BroadcastTransformUpdated(_onGlobeTransformChanged(s, d), t, n - 1, d)

\* USceneComponent::SetWorldTransform on the owner's root: the transform is
\* stored, and TransformUpdated fires when it changed; the entries the
\* component has on that event run before SetWorldTransform returns
SetWorldTransform(s, t, d) ==
  IF s.crashed THEN s
  ELSE IF d > MaxStack THEN Crash(s)
  ELSE
    LET s1 == [s EXCEPT !.actorTransform = t,
                        !.pushed = Append(@, Snapshot(s, t))]
    IN IF t # s.actorTransform /\ OwnerTileset # None
       THEN BroadcastTransformUpdated(
              [s1 EXCEPT !.reentered = @ \/ s1.TransformUpdated[OwnerTileset] > 0],
              OwnerTileset, s1.TransformUpdated[OwnerTileset], d + 1)
       ELSE s1

\* the actor transform derived with the georeference's matrix taken in the
\* wrong direction (Unreal -> ECEF where ECEF -> Unreal is due)
_updateActorTransformFromGlobeTransform_wrongDirection(s, d) ==
  IF s.crashed THEN s
  ELSE IF d > MaxStack THEN Crash(s)
  ELSE IF ~OwnerRootIsValid THEN s
  ELSE IF ~s.worldToECEFIsValid THEN s
  ELSE
    LET s1 == ResolveGeoreference(s, d + 1)
        g == s1.ResolvedGeoreference
    IN IF s1.crashed THEN s1
       ELSE IF g = None THEN Crash(s1)
       ELSE
         LET tileset == IF IsValid(s1.ResolvedTileset)
                        THEN createMatrix4D(GetTransform(s1, s1.ResolvedTileset))
                        ELSE Identity
             absoluteUnrealToEcef ==
               GetAbsoluteUnrealWorldToEllipsoidCenteredTransform(
                 g, s1.georeferenceOrigin[g])
             actorToUnreal == Mul(tileset, Mul(absoluteUnrealToEcef, s1.worldToECEF))
         IN SetWorldTransform(s1, createMatrix(actorToUnreal), d + 1)

_updateActorTransformFromGlobeTransform(s, d) ==
  IF s.crashed THEN s
  ELSE IF d > MaxStack THEN Crash(s)
  ELSE IF ~OwnerIsValid THEN s
  ELSE IF ~OwnerRootIsValid THEN s
  ELSE IF ~s.worldToECEFIsValid THEN s
  ELSE
    LET s1 == ResolveGeoreference(s, d + 1)
        g == s1.ResolvedGeoreference
    IN IF s1.crashed THEN s1
       ELSE IF g = None THEN Crash(s1)
       ELSE
         LET tileset == IF IsValid(s1.ResolvedTileset)
                        THEN createMatrix4D(GetTransform(s1, s1.ResolvedTileset))
                        ELSE Identity
             ecefToAbsoluteUnreal ==
               GetEllipsoidCenteredToAbsoluteUnrealWorldTransform(
                 g, s1.georeferenceOrigin[g])
             actorToUnreal == Mul(tileset, Mul(ecefToAbsoluteUnreal, s1.worldToECEF))
         IN SetWorldTransform(s1, createMatrix(actorToUnreal), d + 1)

_onGlobeTransformChanged(s, d) ==
  IF s.crashed THEN s
  ELSE IF d > MaxStack THEN Crash(s)
  ELSE IF s.worldToECEFIsValid
       THEN _updateActorTransformFromGlobeTransform(s, d + 1)
       ELSE s

\* the notification handler with the push written out in it, and the test
\* of the validity flag lost on the way
_onGeoreferenceChanged_unguarded(s, d) ==
  IF s.crashed THEN s
  ELSE IF d > MaxStack THEN Crash(s)
  ELSE IF s.worldToECEFIsValid
       THEN _updateActorTransformFromGlobeTransform(s, d + 1)
  ELSE IF ~OwnerRootIsValid \/ s.ResolvedGeoreference = None THEN s
  ELSE SetWorldTransform(
         s,
         createMatrix(
           Mul(GetEllipsoidCenteredToAbsoluteUnrealWorldTransform(
                 s.ResolvedGeoreference,
                 s.georeferenceOrigin[s.ResolvedGeoreference]),
               s.worldToECEF)),
         d + 1)

_onGeoreferenceChanged(s, d) ==
  IF s.crashed THEN s
  ELSE IF d > MaxStack THEN Crash(s)
  ELSE IF s.worldToECEFIsValid
       THEN _updateActorTransformFromGlobeTransform(s, d + 1)
       ELSE s

\* ResolveGeoreference whose cache serves only the component's own nested
\* calls: a call from outside resolves, subscribes and notifies every time
ResolveGeoreference_uncached(s, d) ==
  IF s.crashed THEN s
  ELSE IF d > MaxStack THEN Crash(s)
  ELSE IF d > 0 /\ IsValid(s.ResolvedGeoreference) THEN s
  ELSE
    LET g == IF IsValid(s.Tileset) THEN TilesetGeoreference(s.Tileset)
             ELSE defaultGeoreference
        s1 == [s EXCEPT !.ResolvedGeoreference = g,
                        !.OnGeoreferenceUpdated =
                           IF g # None THEN @ \cup {g} ELSE @]
    IN _onGeoreferenceChanged(s1, d + 1)

ResolveGeoreference(s, d) ==
  IF s.crashed THEN s
  ELSE IF d > MaxStack THEN Crash(s)
  ELSE IF IsValid(s.ResolvedGeoreference) THEN s
  ELSE
    LET g == IF IsValid(s.Tileset) THEN TilesetGeoreference(s.Tileset)
             ELSE defaultGeoreference
        s1 == [s EXCEPT !.ResolvedGeoreference = g,
                        !.OnGeoreferenceUpdated =
                           IF g # None THEN @ \cup {g} ELSE @]
    IN _onGeoreferenceChanged(s1, d + 1)

\* the resolved georeference dropped without RemoveAll on its event
InvalidateResolvedGeoreference_stillSubscribed(s) ==
  [s EXCEPT !.ResolvedGeoreference = None]

InvalidateResolvedGeoreference(s) ==
  [s EXCEPT !.OnGeoreferenceUpdated =
               IF IsValid(s.ResolvedGeoreference)
               THEN @ \ {s.ResolvedGeoreference} ELSE @,
            !.ResolvedGeoreference = None]

\* TransformUpdated.AddUObject on the tileset's root: one more entry
_registerTileset(s, pTileset) ==
  IF IsValid(pTileset)
  THEN [s EXCEPT !.TransformUpdated[pTileset] = @ + 1]
  ELSE s

\* TransformUpdated.RemoveAll(this) on the tileset's root
_unregisterTileset(s, pTileset) ==
  IF IsValid(pTileset)
  THEN [s EXCEPT !.TransformUpdated[pTileset] = 0]
  ELSE s

\* the TActorIterator loop: the first tileset actor carrying the tag
FindTilesetByTag(tag) ==
  IF \E t \in Tilesets : ActorHasTag(t, tag)
  THEN CHOOSE t \in Tilesets :
         ActorHasTag(t, tag) /\ \A u \in Tilesets : ActorHasTag(u, tag) => t <= u
  ELSE None

\* ResolveTileset without its cache: every call searches, and adds one more
\* entry to TransformUpdated of the root of the tileset it finds
ResolveTileset_uncached(s, d) ==
  IF s.crashed THEN s
  ELSE
    LET found == IF IsValid(s.Tileset) THEN s.Tileset
                 ELSE FindTilesetByTag(s.TilesetTag)
        s1 == [s EXCEPT !.ResolvedTileset = found]
    IN ResolveGeoreference(_registerTileset(s1, s1.ResolvedTileset), d)

ResolveTileset(s, d) ==
  IF s.crashed THEN s
  ELSE IF IsValid(s.ResolvedTileset) THEN s
  ELSE
    LET found == IF IsValid(s.Tileset) THEN s.Tileset
                 ELSE FindTilesetByTag(s.TilesetTag)
        s1 == [s EXCEPT !.ResolvedTileset = found]
    IN ResolveGeoreference(_registerTileset(s1, s1.ResolvedTileset), d)

\* the resolved tileset dropped without removing the entry from its root's
\* TransformUpdated
InvalidateResolvedTileset_stillSubscribed(s) ==
  InvalidateResolvedGeoreference([s EXCEPT !.ResolvedTileset = None])

InvalidateResolvedTileset(s) ==
  LET s1 == IF IsValid(s.ResolvedTileset)
            THEN _unregisterTileset(s, s.ResolvedTileset) ELSE s
  IN InvalidateResolvedGeoreference([s1 EXCEPT !.ResolvedTileset = None])

----------------------------------------------------------------------------
(* Position handlers *)

\* the translation column _worldToECEF[3], as a glm::dvec3
Translation(M) == Vec3(M[4])

\* a call through a null ACesiumGeoreference* is undefined: the process
\* dies there, or the conversion yields some value (s.ub.value) and the
\* handler runs on; nothing is known of the process afterwards.  An
\* operation draws the second outcome only where it reaches such a call.
NullGeoreferenceOutcomes ==
  {[crash |-> TRUE, value |-> ZeroVector],
   [crash |-> FALSE, value |-> <<1, 1, 1>>]}

Undefined(s) == [s EXCEPT !.undefined = TRUE]

\* the Cartesian mirror left as it is
_updateCartesianProperties_skipped(s) == s

_updateCartesianProperties(s) ==
  IF s.crashed \/ ~s.worldToECEFIsValid THEN s
  ELSE [s EXCEPT !.ECEF_X = s.worldToECEF[4][1],
                 !.ECEF_Y = s.worldToECEF[4][2],
                 !.ECEF_Z = s.worldToECEF[4][3]]

\* the cartographic mirror left as it is
_updateCartographicProperties_skipped(s, d) == s

_updateCartographicProperties(s, d) ==
  IF s.crashed \/ ~s.worldToECEFIsValid THEN s
  ELSE
    LET s1 == ResolveGeoreference(s, d + 1)
        pGeoreference == s1.ResolvedGeoreference
        llh == IF pGeoreference = None THEN s1.ub.value
               ELSE TransformEcefToLongitudeLatitudeHeight(Translation(s1.worldToECEF))
    IN IF s1.crashed THEN s1
       ELSE IF pGeoreference = None /\ s1.ub.crash THEN Crash(s1)
       ELSE [(IF pGeoreference = None THEN Undefined(s1) ELSE s1)
               EXCEPT !.Longitude = llh[1], !.Latitude = llh[2], !.Height = llh[3]]

\* the Unreal -> ECEF matrix applied to the stored globe transform, not to
\* a transform taken afresh: every derivation adds to the one before
_updateGlobeTransformFromActorTransform_accumulating(s) ==
  IF s.crashed THEN s
  ELSE IF s.ResolvedGeoreference = None THEN [s EXCEPT !.worldToECEFIsValid = FALSE]
  ELSE IF ~OwnerIsValid THEN [s EXCEPT !.worldToECEFIsValid = FALSE]
  ELSE
    LET absoluteUnrealToEcef ==
          GetAbsoluteUnrealWorldToEllipsoidCenteredTransform(
            s.ResolvedGeoreference, s.georeferenceOrigin[s.ResolvedGeoreference])
    IN _updateCartesianProperties(
         [s EXCEPT !.worldToECEF = Mul(absoluteUnrealToEcef, @),
                   !.worldToECEFIsValid = TRUE])

_updateGlobeTransformFromActorTransform(s) ==
  IF s.crashed THEN s
  ELSE IF s.ResolvedGeoreference = None THEN [s EXCEPT !.worldToECEFIsValid = FALSE]
  ELSE IF ~OwnerIsValid THEN [s EXCEPT !.worldToECEFIsValid = FALSE]
  ELSE
    LET sum == [r \in 1..4 |-> Identity[4][r] + getWorldOrigin4D[r]]
        worldTransform == [Identity EXCEPT ![4] = [sum EXCEPT ![4] = 1]]
        absoluteUnrealToEcef ==
          GetAbsoluteUnrealWorldToEllipsoidCenteredTransform(
            s.ResolvedGeoreference, s.georeferenceOrigin[s.ResolvedGeoreference])
    IN _updateCartesianProperties(
         [s EXCEPT !.worldToECEF = Mul(absoluteUnrealToEcef, worldTransform),
                   !.worldToECEFIsValid = TRUE])

_setGlobeTransform(s, newTransform, d) ==
  IF s.crashed THEN s
  ELSE _updateActorTransformFromGlobeTransform(
         [s EXCEPT !.worldToECEF = newTransform], d + 1)

\* the Cartesian properties applied to a fresh matrix: the translation is
\* set, the rotation and scale of the stored globe transform are lost
_applyCartesianProperties_fromIdentity(s, d) ==
  IF s.crashed THEN s
  ELSE
    LET s1 == IF ~s.worldToECEFIsValid
              THEN [_updateGlobeTransformFromActorTransform(s)
                      EXCEPT !.ECEF_X = s.ECEF_X, !.ECEF_Y = s.ECEF_Y,
                             !.ECEF_Z = s.ECEF_Z]
              ELSE s
        transform == [Identity EXCEPT
                        ![4] = <<s1.ECEF_X, s1.ECEF_Y, s1.ECEF_Z, 1>>]
    IN _updateCartographicProperties(_setGlobeTransform(s1, transform, d), d)

\* the Cartesian properties applied after recomputing the globe transform
\* from the actor transform every time, not only while it is invalid
_applyCartesianProperties_recomputing(s, d) ==
  IF s.crashed THEN s
  ELSE
    LET s1 == [_updateGlobeTransformFromActorTransform(s)
                 EXCEPT !.ECEF_X = s.ECEF_X, !.ECEF_Y = s.ECEF_Y,
                        !.ECEF_Z = s.ECEF_Z]
        transform == [s1.worldToECEF EXCEPT
                        ![4] = <<s1.ECEF_X, s1.ECEF_Y, s1.ECEF_Z, 1>>]
    IN _updateCartographicProperties(_setGlobeTransform(s1, transform, d), d)

_applyCartesianProperties(s, d) ==
  IF s.crashed THEN s
  ELSE
    LET s1 == IF ~s.worldToECEFIsValid
              THEN [_updateGlobeTransformFromActorTransform(s)
                      EXCEPT !.ECEF_X = s.ECEF_X, !.ECEF_Y = s.ECEF_Y,
                             !.ECEF_Z = s.ECEF_Z]
              ELSE s
        transform == [s1.worldToECEF EXCEPT
                        ![4] = <<s1.ECEF_X, s1.ECEF_Y, s1.ECEF_Z, 1>>]
    IN _updateCartographicProperties(_setGlobeTransform(s1, transform, d), d)

_applyCartographicProperties(s, d) ==
  IF s.crashed THEN s
  ELSE
    LET s1 == IF ~s.worldToECEFIsValid
              THEN [_updateGlobeTransformFromActorTransform(s)
                      EXCEPT !.Longitude = s.Longitude, !.Latitude = s.Latitude,
                             !.Height = s.Height]
              ELSE s
        s2 == ResolveGeoreference(s1, d + 1)
        pGeoreference == s2.ResolvedGeoreference
        newEcef == IF pGeoreference = None THEN s2.ub.value
                   ELSE TransformLongitudeLatitudeHeightToEcef(
                          <<s2.Longitude, s2.Latitude, s2.Height>>)
        transform == [s2.worldToECEF EXCEPT ![4] = Vec4(newEcef, 1)]
    IN IF s2.crashed THEN s2
       ELSE IF pGeoreference = None /\ s2.ub.crash THEN Crash(s2)
       ELSE _updateCartesianProperties(
              _setGlobeTransform(
                IF pGeoreference = None THEN Undefined(s2) ELSE s2, transform, d))

\* GetECEF without the test of the validity flag
GetECEF_unguarded(s) == createVector(Translation(s.worldToECEF))

\* FVector GetECEF() const: the value returned
GetECEF(s) ==
  IF ~s.worldToECEFIsValid THEN ZeroVector
  ELSE createVector(Translation(s.worldToECEF))

\* FVector GetLongitudeLatitudeHeight() const: the value returned (the
\* georeference's FVector overload converts in double and returns an FVector)
GetLongitudeLatitudeHeight(s) ==
  IF ~s.worldToECEFIsValid \/ s.ResolvedGeoreference = None THEN ZeroVector
  ELSE createVector(TransformEcefToLongitudeLatitudeHeight(
                      createVector3D(GetECEF(s))))

MoveToECEF(s, newPosition, d) ==
  _applyCartesianProperties(
    [s EXCEPT !.ECEF_X = newPosition[1], !.ECEF_Y = newPosition[2],
              !.ECEF_Z = newPosition[3]], d)

\* MoveToLongitudeLatitudeHeight without its early return
MoveToLongitudeLatitudeHeight_unguarded(s, TargetLongitudeLatitudeHeight, d) ==
  MoveToECEF(s, TransformLongitudeLatitudeHeightToEcef(
                  TargetLongitudeLatitudeHeight), d)

MoveToLongitudeLatitudeHeight(s, TargetLongitudeLatitudeHeight, d) ==
  IF ~s.worldToECEFIsValid \/ s.ResolvedGeoreference = None THEN s
  ELSE MoveToECEF(s, TransformLongitudeLatitudeHeightToEcef(
                       TargetLongitudeLatitudeHeight), d)

----------------------------------------------------------------------------
(* From the variables to a handler's record and back *)

NoOutcome == [crash |-> TRUE, value |-> ZeroVector]

Cur(ub) ==
  [Tileset |-> Tileset, Georeference |-> Georeference,
   TilesetTag |-> TilesetTag,
   ResolvedGeoreference |-> ResolvedGeoreference,
   ResolvedTileset |-> ResolvedTileset,
   Longitude |-> Longitude, Latitude |-> Latitude, Height |-> Height,
   ECEF_X |-> ECEF_X, ECEF_Y |-> ECEF_Y, ECEF_Z |-> ECEF_Z,
   worldToECEF |-> _worldToECEF, worldToECEFIsValid |-> _worldToECEFIsValid,
   OnGeoreferenceUpdated |-> OnGeoreferenceUpdated,
   TransformUpdated |-> TransformUpdated,
   georeferenceOrigin |-> georeferenceOrigin,
   tilesetTransform |-> tilesetTransform,
   actorTransform |-> actorTransform,
   crashed |-> FALSE, undefined |-> FALSE, pushed |-> <<>>,
   reentered |-> FALSE, ub |-> ub]

\* the step of an operation `name` called with `arg`, whose handlers took
\* the state to s and which returned `result`
Commit(s, name, arg, result) ==
  /\ Tileset' = s.Tileset
  /\ Georeference' = s.Georeference
  /\ TilesetTag' = s.TilesetTag
  /\ ResolvedGeoreference' = s.ResolvedGeoreference
  /\ ResolvedTileset' = s.ResolvedTileset
  /\ Longitude' = s.Longitude
  /\ Latitude' = s.Latitude
  /\ Height' = s.Height
  /\ ECEF_X' = s.ECEF_X
  /\ ECEF_Y' = s.ECEF_Y
  /\ ECEF_Z' = s.ECEF_Z
  /\ _worldToECEF' = s.worldToECEF
  /\ _worldToECEFIsValid' = s.worldToECEFIsValid
  /\ OnGeoreferenceUpdated' = s.OnGeoreferenceUpdated
  /\ TransformUpdated' = s.TransformUpdated
  /\ georeferenceOrigin' = s.georeferenceOrigin
  /\ tilesetTransform' = s.tilesetTransform
  /\ actorTransform' = s.actorTransform
  /\ crashed' = s.crashed
  /\ undefined' = s.undefined
  /\ steps' = steps + 1
  /\ pushed' = s.pushed
  /\ reentered' = s.reentered
  /\ op' = [name |-> name, arg |-> arg, wasValid |-> _worldToECEFIsValid]
  /\ ret' = result
  /\ UNCHANGED <<defaultGeoreference, owner>>

NoResult == <<>>

----------------------------------------------------------------------------
(* Operations of the component *)

Init ==
  /\ Tileset = None
  /\ Georeference = None
  /\ TilesetTag = NoTag
  /\ ResolvedGeoreference = None
  /\ ResolvedTileset = None
  /\ Longitude = 0 /\ Latitude = 0 /\ Height = 0
  /\ ECEF_X = 0 /\ ECEF_Y = 0 /\ ECEF_Z = 0
  /\ _worldToECEF = ZeroMatrix
  /\ _worldToECEFIsValid = FALSE
  /\ registered = FALSE
  /\ OnGeoreferenceUpdated = {}
  /\ TransformUpdated = [t \in Tilesets |-> 0]
  /\ georeferenceOrigin = [g \in Georeferences |-> 0]
  /\ tilesetTransform = [t \in Tilesets |-> TilesetPlacement(0)]
  /\ actorTransform = ActorPlacement(0)
  /\ OriginLocation = 0
  /\ defaultGeoreference \in {None, 2}
  /\ owner \in {"none", "noroot", "actor", "tileset"}
  /\ crashed = FALSE
  /\ undefined = FALSE
  /\ steps = 0
  /\ op = [name |-> "constructor", arg |-> NoResult, wasValid |-> FALSE]
  /\ ret = NoResult
  /\ pushed = <<>>
  /\ reentered = FALSE

OnComponentCreated ==
  /\ Running /\ ~registered
  /\ Commit([Cur(NoOutcome) EXCEPT !.worldToECEFIsValid = FALSE],
            "OnComponentCreated", NoResult, NoResult)
  /\ UNCHANGED <<registered, OriginLocation>>

\* loading that takes the validity flag as stored, whatever the version
Serialize_flagAsStored(old, storedValid) ==
  /\ Running /\ ~registered
  /\ LET position == EcefTarget(0)
         llh == TransformEcefToLongitudeLatitudeHeight(position)
     IN Commit([Cur(NoOutcome) EXCEPT
                  !.worldToECEF = RotZ(position),
                  !.worldToECEFIsValid = storedValid,
                  !.ECEF_X = position[1], !.ECEF_Y = position[2],
                  !.ECEF_Z = position[3],
                  !.Longitude = llh[1], !.Latitude = llh[2],
                  !.Height = llh[3]],
               "Serialize", <<old, storedValid>>, NoResult)
  /\ UNCHANGED <<registered, OriginLocation>>

\* loading: Super::Serialize restores the stored globe transform, flag and
\* position properties; data older than GeoreferenceRefactoring has no flag
Serialize(old, storedValid) ==
  /\ Running /\ ~registered
  /\ LET position == EcefTarget(0)
         llh == TransformEcefToLongitudeLatitudeHeight(position)
         loaded == [Cur(NoOutcome) EXCEPT
                      !.worldToECEF = RotZ(position),
                      !.worldToECEFIsValid = storedValid,
                      !.ECEF_X = position[1], !.ECEF_Y = position[2],
                      !.ECEF_Z = position[3],
                      !.Longitude = llh[1], !.Latitude = llh[2],
                      !.Height = llh[3]]
     IN Commit(IF old THEN [loaded EXCEPT !.worldToECEFIsValid = TRUE] ELSE loaded,
               "Serialize", <<old, storedValid>>, NoResult)
  /\ UNCHANGED <<registered, OriginLocation>>

OnRegister ==
  /\ Running /\ ~registered
  /\ registered' = TRUE
  /\ LET s1 == ResolveTileset(Cur(NoOutcome), 0)
         s2 == IF ~s1.worldToECEFIsValid
               THEN _updateGlobeTransformFromActorTransform(s1) ELSE s1
     IN Commit(IF ~OwnerIsValid THEN Cur(NoOutcome) ELSE s2,
               "OnRegister", NoResult, NoResult)
  /\ UNCHANGED OriginLocation

OnUnregister ==
  /\ Running /\ registered
  /\ registered' = FALSE
  /\ Commit(InvalidateResolvedTileset(Cur(NoOutcome)),
            "OnUnregister", NoResult, NoResult)
  /\ UNCHANGED OriginLocation

SetTileset(NewTileset) ==
  /\ Running
  /\ Commit(ResolveTileset(
              InvalidateResolvedTileset(
                [Cur(NoOutcome) EXCEPT !.Tileset = NewTileset]), 0),
            "SetTileset", NewTileset, NoResult)
  /\ UNCHANGED <<registered, OriginLocation>>

SetTilesetTag(NewTilesetTag) ==
  /\ Running
  /\ LET s == Cur(NoOutcome)
         s1 == [s EXCEPT !.TilesetTag = NewTilesetTag]
     IN Commit(IF NewTilesetTag # s.TilesetTag THEN s
               ELSE IF ~IsValid(s1.Tileset)
                    THEN ResolveTileset(InvalidateResolvedTileset(s1), 0)
                    ELSE s1,
               "SetTilesetTag", NewTilesetTag, NoResult)
  /\ UNCHANGED <<registered, OriginLocation>>

CallResolveGeoreference ==
  /\ Running
  /\ LET s == ResolveGeoreference(Cur(NoOutcome), 0)
     IN Commit(s, "ResolveGeoreference", NoResult, s.ResolvedGeoreference)
  /\ UNCHANGED <<registered, OriginLocation>>

CallInvalidateResolvedGeoreference ==
  /\ Running
  /\ Commit(InvalidateResolvedGeoreference(Cur(NoOutcome)),
            "InvalidateResolvedGeoreference", NoResult, NoResult)
  /\ UNCHANGED <<registered, OriginLocation>>

CallGetECEF ==
  /\ Running
  /\ Commit(Cur(NoOutcome), "GetECEF", NoResult, GetECEF(Cur(NoOutcome)))
  /\ UNCHANGED <<registered, OriginLocation>>

CallGetLongitudeLatitudeHeight ==
  /\ Running
  /\ Commit(Cur(NoOutcome), "GetLongitudeLatitudeHeight", NoResult,
            GetLongitudeLatitudeHeight(Cur(NoOutcome)))
  /\ UNCHANGED <<registered, OriginLocation>>

CallMoveToECEF(k, ub) ==
  /\ Running
  /\ ub.crash \/ MoveToECEF(Cur(ub), EcefTarget(k), 0).undefined
  /\ Commit(MoveToECEF(Cur(ub), EcefTarget(k), 0),
            "MoveToECEF", EcefTarget(k), NoResult)
  /\ UNCHANGED <<registered, OriginLocation>>

CallMoveToLongitudeLatitudeHeight(k, ub) ==
  /\ Running
  /\ ub.crash \/ MoveToLongitudeLatitudeHeight(Cur(ub), LlhTarget(k), 0).undefined
  /\ Commit(MoveToLongitudeLatitudeHeight(Cur(ub), LlhTarget(k), 0),
            "MoveToLongitudeLatitudeHeight", LlhTarget(k), NoResult)
  /\ UNCHANGED <<registered, OriginLocation>>

\* origin rebasing handled as a move of the actor: the globe transform is
\* recomputed
ApplyWorldOffset_recomputing(D, inWorld) ==
  /\ Running
  /\ D # 0
  /\ OriginLocation - D \in 0..MaxRebase
  /\ LET s == Cur(NoOutcome)
         shifted == [s EXCEPT !.actorTransform[4][1] =
                                 IF OwnerRootIsValid THEN @ + D ELSE @]
     IN IF inWorld
        THEN /\ Commit(_updateGlobeTransformFromActorTransform(shifted),
                       "ApplyWorldOffset", <<D, inWorld>>, NoResult)
             /\ OriginLocation' = OriginLocation - D
        ELSE /\ Commit(s, "ApplyWorldOffset", <<D, inWorld>>, NoResult)
             /\ OriginLocation' = OriginLocation
  /\ UNCHANGED registered

\* origin rebasing by InOffset = (D, 0, 0).  The engine has already shifted
\* the owner's root by InOffset, without firing TransformUpdated, and sets
\* the world's OriginLocation to OriginLocation - InOffset afterwards.
\* inWorld: whether GetWorld() is valid.
ApplyWorldOffset(D, inWorld) ==
  /\ Running
  /\ D # 0
  /\ OriginLocation - D \in 0..MaxRebase
  /\ LET s == Cur(NoOutcome)
         shifted == [s EXCEPT !.actorTransform[4][1] =
                                 IF OwnerRootIsValid THEN @ + D ELSE @]
     IN IF inWorld
        THEN /\ Commit(_updateActorTransformFromGlobeTransform(shifted, 0),
                       "ApplyWorldOffset", <<D, inWorld>>, NoResult)
             /\ OriginLocation' = OriginLocation - D
        ELSE /\ Commit(s, "ApplyWorldOffset", <<D, inWorld>>, NoResult)
             /\ OriginLocation' = OriginLocation
  /\ UNCHANGED registered

LLHProperties == {"Longitude", "Latitude", "Height"}
ECEFProperties == {"ECEF_X", "ECEF_Y", "ECEF_Z"}
\* the properties the editor changes in this model
EditedProperties == {"Height", "ECEF_X", "Tileset", "Georeference", "TilesetTag"}

\* the values the editor can write to a property
PropertyValues(property) ==
  CASE property = "Longitude" -> {LlhTarget(k)[1] : k \in 0..MaxTarget}
    [] property = "Latitude" -> {LlhTarget(k)[2] : k \in 0..MaxTarget}
    [] property = "Height" -> {LlhTarget(k)[3] : k \in 0..MaxTarget}
    [] property = "ECEF_X" -> {EcefTarget(k)[1] : k \in 0..MaxTarget}
    [] property = "ECEF_Y" -> {EcefTarget(k)[2] : k \in 0..MaxTarget}
    [] property = "ECEF_Z" -> {EcefTarget(k)[3] : k \in 0..MaxTarget}
    [] property = "Tileset" -> Tilesets \cup {None}
    [] property = "Georeference" -> Georeferences \cup {None}
    [] property = "TilesetTag" -> Tags

\* the editor wrote `value` to `property` and then notifies the component
PostEditChangeProperty(property, value, ub) ==
  /\ Running
  /\ LET s == Cur(ub)
         edited ==
           CASE property = "Longitude" -> [s EXCEPT !.Longitude = value]
             [] property = "Latitude" -> [s EXCEPT !.Latitude = value]
             [] property = "Height" -> [s EXCEPT !.Height = value]
             [] property = "ECEF_X" -> [s EXCEPT !.ECEF_X = value]
             [] property = "ECEF_Y" -> [s EXCEPT !.ECEF_Y = value]
             [] property = "ECEF_Z" -> [s EXCEPT !.ECEF_Z = value]
             [] property = "Tileset" -> [s EXCEPT !.Tileset = value]
             [] property = "Georeference" -> [s EXCEPT !.Georeference = value]
             [] property = "TilesetTag" -> [s EXCEPT !.TilesetTag = value]
         after == IF property \in LLHProperties
                    THEN _applyCartographicProperties(edited, 0)
                  ELSE IF property \in ECEFProperties
                    THEN _applyCartesianProperties(edited, 0)
                  ELSE IF property = "Tileset"
                    THEN InvalidateResolvedGeoreference(edited)
                  ELSE edited
     IN /\ ub.crash \/ after.undefined
        /\ Commit(after, "PostEditChangeProperty", <<property, value>>, NoResult)
  /\ UNCHANGED <<registered, OriginLocation>>

----------------------------------------------------------------------------
(* Events of the world *)

\* georeference g gets origin number k and broadcasts OnGeoreferenceUpdated
GeoreferenceUpdated(g, k) ==
  /\ Running
  /\ k # georeferenceOrigin[g]
  /\ LET s == [Cur(NoOutcome) EXCEPT !.georeferenceOrigin[g] = k]
     IN Commit(IF g \in OnGeoreferenceUpdated
               THEN _onGeoreferenceChanged(s, 0) ELSE s,
               "GeoreferenceUpdated", <<g, k>>, NoResult)
  /\ UNCHANGED <<registered, OriginLocation>>

\* tileset actor t (not the owner) is moved to placement k; its root
\* broadcasts TransformUpdated
TilesetTransformUpdated(t, k) ==
  /\ Running
  /\ t # OwnerTileset
  /\ TilesetPlacement(k) # tilesetTransform[t]
  /\ LET s == [Cur(NoOutcome) EXCEPT !.tilesetTransform[t] = TilesetPlacement(k)]
     IN Commit(BroadcastTransformUpdated(s, t, s.TransformUpdated[t], 0),
               "TilesetTransformUpdated", <<t, k>>, NoResult)
  /\ UNCHANGED <<registered, OriginLocation>>

\* other code moves the owning actor; its root broadcasts TransformUpdated
ActorTransformChanged(k) ==
  /\ Running
  /\ OwnerRootIsValid
  /\ ActorPlacement(k) # actorTransform
  /\ LET s == [Cur(NoOutcome) EXCEPT !.actorTransform = ActorPlacement(k)]
     IN Commit(IF OwnerTileset # None
               THEN BroadcastTransformUpdated(
                      s, OwnerTileset, s.TransformUpdated[OwnerTileset], 0)
               ELSE s,
               "ActorTransformChanged", k, NoResult)
  /\ UNCHANGED <<registered, OriginLocation>>

----------------------------------------------------------------------------
(* Specification *)

Next ==
  \/ OnComponentCreated
  \/ \E old \in BOOLEAN, storedValid \in BOOLEAN : Serialize(old, storedValid)
  \/ OnRegister
  \/ OnUnregister
  \/ \E t \in Tilesets \cup {None} : SetTileset(t)
  \/ \E tag \in Tags : SetTilesetTag(tag)
  \/ CallResolveGeoreference
  \/ CallInvalidateResolvedGeoreference
  \/ CallGetECEF
  \/ CallGetLongitudeLatitudeHeight
  \/ \E k \in 0..MaxTarget, ub \in NullGeoreferenceOutcomes : CallMoveToECEF(k, ub)
  \/ \E k \in 0..MaxTarget, ub \in NullGeoreferenceOutcomes :
       CallMoveToLongitudeLatitudeHeight(k, ub)
  \/ \E D \in {0 - 1, 1}, inWorld \in BOOLEAN : ApplyWorldOffset(D, inWorld)
  \/ \E property \in EditedProperties :
       \E value \in PropertyValues(property), ub \in NullGeoreferenceOutcomes :
         PostEditChangeProperty(property, value, ub)
  \/ \E g \in Georeferences, k \in 0..MaxOrigin : GeoreferenceUpdated(g, k)
  \/ \E t \in Tilesets, k \in 0..MaxPlacement : TilesetTransformUpdated(t, k)
  \/ \E k \in 0..MaxPlacement : ActorTransformChanged(k)

Spec == Init /\ [][Next]_vars

----------------------------------------------------------------------------
(* Properties *)

Moves == {"MoveToECEF", "MoveToLongitudeLatitudeHeight"}

\* the ECEF position an explicit set asks for
Requested ==
  IF op.name = "MoveToLongitudeLatitudeHeight"
  THEN TransformLongitudeLatitudeHeightToEcef(op.arg)
  ELSE op.arg

\* C1: while the component is registered, a change of the owning actor's
\* transform by other code recomputes the globe transform from the new actor
\* transform and leaves the anchor valid.  Stated where it is simplest: the
\* owner is a plain actor, a georeference is resolved and no tileset is.
C1_ActorMoveRecomputesGlobe ==
  (/\ op.name = "ActorTransformChanged"
   /\ registered
   /\ owner = "actor"
   /\ ResolvedGeoreference # None
   /\ ResolvedTileset = None
   /\ ~crashed)
  => /\ _worldToECEFIsValid
     /\ _worldToECEF =
          Mul(GetAbsoluteUnrealWorldToEllipsoidCenteredTransform(
                ResolvedGeoreference, georeferenceOrigin[ResolvedGeoreference]),
              [actorTransform EXCEPT ![4][1] = @ + OriginLocation])

\* C2 as stated: after MoveToECEF or MoveToLongitudeLatitudeHeight, called in
\* any state, the anchor is valid and the translation of the globe transform
\* is the requested position.
C2_ExplicitSetAlwaysValid ==
  (op.name \in Moves /\ ~crashed)
  => /\ _worldToECEFIsValid
     /\ Translation(_worldToECEF) = Requested

\* C2 as the code has it: MoveToECEF always stores the requested translation,
\* and the anchor is valid afterwards exactly if it was valid before or a
\* georeference is resolved and the owner is valid;
\* MoveToLongitudeLatitudeHeight acts only on a valid anchor with a resolved
\* georeference, which it leaves valid with the requested translation, and
\* otherwise changes nothing.
C2_ExplicitSet ==
  [][/\ op'.name = "MoveToECEF"
        => /\ Translation(_worldToECEF') = op'.arg
           /\ _worldToECEFIsValid' =
                (_worldToECEFIsValid \/ (ResolvedGeoreference # None /\ OwnerIsValid))
     /\ op'.name = "MoveToLongitudeLatitudeHeight"
        => IF _worldToECEFIsValid /\ ResolvedGeoreference # None
           THEN /\ _worldToECEFIsValid'
                /\ Translation(_worldToECEF') =
                     TransformLongitudeLatitudeHeightToEcef(op'.arg)
           ELSE /\ UNCHANGED <<component, delegates, world>>
                /\ pushed' = <<>>]_vars

\* a valid anchor has been moved by MoveToLongitudeLatitudeHeight to a
\* position it did not have as loaded
C2_Witness ==
  /\ op.name = "MoveToLongitudeLatitudeHeight"
  /\ op.arg # LlhTarget(0)
  /\ _worldToECEFIsValid
  /\ Translation(_worldToECEF) = Requested
  /\ pushed # <<>>
  /\ ~crashed

\* the longitude, latitude and height that GetLongitudeLatitudeHeight
\* returns in the current state
CurrentLongitudeLatitudeHeight == GetLongitudeLatitudeHeight(Cur(NoOutcome))

C4_ExplicitSetPushesOnce ==
  [][(/\ op'.name \in Moves
      /\ _worldToECEFIsValid
      /\ registered
      /\ owner = "actor"
      /\ defaultGeoreference # None
      /\ ~crashed')
     => Len(pushed') = 1]_vars

\* C5: GetECEF on an invalid anchor, and GetLongitudeLatitudeHeight on an
\* invalid anchor or with no georeference resolved, return the zero vector
\* and change nothing.
C5_InvalidReadsReturnZero ==
  [][/\ (op'.name = "GetECEF" /\ ~_worldToECEFIsValid)
        => /\ ret' = ZeroVector
           /\ UNCHANGED <<component, delegates, world>>
           /\ pushed' = <<>> /\ ~crashed' /\ ~undefined'
     /\ (/\ op'.name = "GetLongitudeLatitudeHeight"
         /\ ~_worldToECEFIsValid \/ ResolvedGeoreference = None)
        => /\ ret' = ZeroVector
           /\ UNCHANGED <<component, delegates, world>>
           /\ pushed' = <<>> /\ ~crashed' /\ ~undefined']_vars

\* GetECEF returned zero on an invalid anchor whose stored translation is
\* not zero
C5_Witness ==
  /\ op.name = "GetECEF"
  /\ ~_worldToECEFIsValid
  /\ createVector(Translation(_worldToECEF)) # ZeroVector
  /\ ret = ZeroVector

\* what GetECEF returns in the current state
CurrentECEF == GetECEF(Cur(NoOutcome))

\* the actor transform that the current globe transform, the resolved
\* georeference and the resolved tileset's placement give
DerivedActorTransform ==
  createMatrix(
    Mul(IF IsValid(ResolvedTileset)
        THEN createMatrix4D(GetTransform(Cur(NoOutcome), ResolvedTileset))
        ELSE Identity,
        Mul(GetEllipsoidCenteredToAbsoluteUnrealWorldTransform(
              ResolvedGeoreference, georeferenceOrigin[ResolvedGeoreference]),
            _worldToECEF)))

\* the resolved georeference has notified the component
Notified(o, listeners) ==
  o.name = "GeoreferenceUpdated" /\ o.arg[1] \in listeners

\* C6: a georeference-changed notification delivered to a valid anchor leaves
\* the globe transform, the validity flag, the position properties, the
\* subscriptions and the value of GetECEF as they were; where the owner has
\* a root and the call returns, the actor transform has been pushed, always
\* with that globe transform, and it is the one derived from the globe
\* transform and the georeference's new matrices.
C6_NotificationKeepsGlobe ==
  /\ [][(Notified(op', OnGeoreferenceUpdated) /\ _worldToECEFIsValid)
        => /\ _worldToECEF' = _worldToECEF
           /\ _worldToECEFIsValid'
           /\ CurrentECEF' = CurrentECEF
           /\ UNCHANGED <<Longitude, Latitude, Height, ECEF_X, ECEF_Y, ECEF_Z>>
           /\ UNCHANGED OnGeoreferenceUpdated
           /\ ~undefined'
           /\ \A i \in 1..Len(pushed') : pushed'[i].globe = _worldToECEF]_vars
  /\ [](/\ Notified(op, OnGeoreferenceUpdated)
        /\ _worldToECEFIsValid
        /\ OwnerRootIsValid
        /\ ~crashed
        => /\ pushed # <<>>
           /\ ResolvedGeoreference # None
           /\ actorTransform = DerivedActorTransform)

\* a valid anchor was notified by its georeference, whose origin had moved,
\* and the actor transform pushed differs from the one before
C6_Witness ==
  /\ Notified(op, OnGeoreferenceUpdated)
  /\ op.arg[1] = ResolvedGeoreference
  /\ _worldToECEFIsValid
  /\ ~crashed
  /\ Len(pushed) = 1
  /\ actorTransform = pushed[1].transform
  /\ actorTransform # ActorPlacement(0)

\* C7: a georeference-changed notification delivered to an invalid anchor
\* does nothing: nothing is pushed and no state of the component, of its
\* subscriptions or of the actor changes.
C7_NotificationToInvalidIsNoOp ==
  [][(Notified(op', OnGeoreferenceUpdated) /\ ~_worldToECEFIsValid)
     => /\ pushed' = <<>>
        /\ UNCHANGED <<component, delegates, actorTransform, tilesetTransform>>
        /\ ~crashed' /\ ~undefined']_vars

\* an invalid anchor of an actor with a root, subscribed to its resolved
\* georeference, was notified
C7_Witness ==
  /\ Notified(op, OnGeoreferenceUpdated)
  /\ op.arg[1] = ResolvedGeoreference
  /\ ~_worldToECEFIsValid
  /\ OwnerRootIsValid
  /\ pushed = <<>>

\* C8: ApplyWorldOffset on a valid anchor leaves the globe transform, the
\* validity flag and the value of GetECEF as they were.
C8_RebaseKeepsGlobe ==
  [][(op'.name = "ApplyWorldOffset" /\ _worldToECEFIsValid)
     => /\ _worldToECEF' = _worldToECEF
        /\ _worldToECEFIsValid'
        /\ CurrentECEF' = CurrentECEF]_vars

\* the origin was rebased under a valid anchor that had been moved, and
\* the actor transform was pushed
C8_Witness ==
  /\ op.name = "ApplyWorldOffset"
  /\ op.arg[2]
  /\ _worldToECEFIsValid
  /\ Translation(_worldToECEF) \in {EcefTarget(k) : k \in 0..MaxTarget}
  /\ pushed # <<>>
  /\ ~crashed

\* C9: on an origin rebase by D the pushed actor transform is computed with
\* the new world origin, oldOrigin - D: its translation is the absolute one
\* less the new origin, and so differs by the offset from the one a push
\* without the rebase gives.  Stated for a registered component of a plain
\* actor; OriginLocation is the new origin in the state after the rebase.
C9_RebaseUsesNewOrigin ==
  (/\ op.name = "ApplyWorldOffset"
   /\ op.arg[2]
   /\ _worldToECEFIsValid
   /\ registered
   /\ owner = "actor"
   /\ ResolvedGeoreference # None
   /\ ~crashed
   /\ pushed # <<>>)
  => Translation(pushed[Len(pushed)].transform)[1] =
       Translation(DerivedActorTransform)[1] - OriginLocation

\* C10: after OnRegister with a valid owner in a world where a georeference
\* exists or can be created, the anchor is valid and a georeference is
\* resolved, whatever ran before.  Stated for a Tileset property that is
\* null or names a tileset that has a georeference.
C10_RegisterRestoresBinding ==
  (/\ op.name = "OnRegister"
   /\ OwnerIsValid
   /\ defaultGeoreference # None
   /\ Tileset = None \/ TilesetGeoreference(Tileset) # None
   /\ ~crashed)
  => /\ _worldToECEFIsValid
     /\ ResolvedGeoreference # None

\* the actor's transform in absolute world coordinates
AbsoluteActorTransform == [actorTransform EXCEPT ![4][1] = @ + OriginLocation]

\* OnRegister has computed the globe transform: the anchor was invalid and
\* is valid now
RegistrationDerivedGlobe ==
  /\ op.name = "OnRegister"
  /\ ~op.wasValid
  /\ _worldToECEFIsValid
  /\ ~crashed

\* C11: a globe transform derived from the actor transform is
\* inverse(tileset placement) * (Unreal -> ECEF matrix) * (the actor's
\* current transform).  Stated for an owner that is a plain actor.
C11_GlobeFromActorTransform ==
  (RegistrationDerivedGlobe /\ owner = "actor")
  => _worldToECEF =
       Mul(IF IsValid(ResolvedTileset)
           THEN AffineInverse(GetTransform(Cur(NoOutcome), ResolvedTileset))
           ELSE Identity,
           Mul(GetAbsoluteUnrealWorldToEllipsoidCenteredTransform(
                 ResolvedGeoreference, georeferenceOrigin[ResolvedGeoreference]),
               AbsoluteActorTransform))

\* C12: the globe transform that registration derives from actor transform T
\* gives T back: in the same georeference, origin and tileset placement, the
\* actor transform derived from it (what a georeference notification would
\* push) is T.  Stated for an owner that is a plain actor.
C12_DeriveRoundTrip ==
  (RegistrationDerivedGlobe /\ owner = "actor")
  => DerivedActorTransform = actorTransform

\* C13: OnRegister on a valid anchor leaves the globe transform as stored and
\* the actor transform derived from it.  Stated for an owner that is a plain
\* actor with a root.
C13_RegisterValidDerivesActor ==
  /\ [][(op'.name = "OnRegister" /\ _worldToECEFIsValid)
        => /\ _worldToECEF' = _worldToECEF
           /\ _worldToECEFIsValid']_vars
  /\ [](/\ op.name = "OnRegister"
        /\ op.wasValid
        /\ owner = "actor"
        /\ ~crashed
        => /\ ResolvedGeoreference # None
           /\ actorTransform = DerivedActorTransform)

\* C14: after loading, the validity flag is true for data older than
\* GeoreferenceRefactoring and is the stored flag otherwise.
C14_LoadedValidity ==
  op.name = "Serialize"
  => _worldToECEFIsValid = (IF op.arg[1] THEN TRUE ELSE op.arg[2])

\* old data was loaded whose stored flag reads false
C14_Witness ==
  /\ op.name = "Serialize"
  /\ op.arg = <<TRUE, FALSE>>
  /\ _worldToECEFIsValid

\* the last operation found the anchor valid and left it invalid
Invalidated == op.wasValid /\ ~_worldToECEFIsValid

\* C15 as stated: the flag is false right after OnComponentCreated, and no
\* other operation takes it from true to false.
C15_OnlyCreationInvalidates ==
  /\ op.name = "OnComponentCreated" => ~_worldToECEFIsValid
  /\ Invalidated => op.name = "OnComponentCreated"

\* C15 as the code has it: the flag is false right after OnComponentCreated,
\* and it goes from true to false only there and when data at or after
\* GeoreferenceRefactoring is loaded whose stored flag is false.
C15_ValidityStable ==
  /\ op.name = "OnComponentCreated" => ~_worldToECEFIsValid
  /\ Invalidated
     => \/ op.name = "OnComponentCreated"
        \/ op.name = "Serialize" /\ op.arg = <<FALSE, FALSE>>

\* a position was set on a valid anchor that has no valid owner, where a
\* recomputation of the globe transform would have cleared the flag
C15_Witness ==
  /\ op.name \in Moves \cup {"PostEditChangeProperty"}
  /\ op.wasValid
  /\ _worldToECEFIsValid
  /\ ~OwnerIsValid
  /\ Translation(_worldToECEF) # EcefTarget(0)

\* C16: OnUnregister leaves no resolved georeference, no resolved tileset and
\* no subscription to any georeference or tileset root; the validity flag
\* and the globe transform stay as they were.
C16_UnregisterReleasesAll ==
  [][op'.name = "OnUnregister"
     => /\ ResolvedGeoreference' = None
        /\ ResolvedTileset' = None
        /\ OnGeoreferenceUpdated' = {}
        /\ \A t \in Tilesets : TransformUpdated'[t] = 0
        /\ _worldToECEFIsValid' = _worldToECEFIsValid
        /\ _worldToECEF' = _worldToECEF
        /\ ~registered'
        /\ ~crashed' /\ ~undefined']_vars

\* a valid component that had resolved tileset T1 and its georeference was
\* unregistered
C16_Witness ==
  /\ op.name = "OnUnregister"
  /\ Tileset = 1
  /\ op.wasValid
  /\ _worldToECEFIsValid
  /\ ResolvedTileset = None

\* C17: the component is on the OnGeoreferenceUpdated event of georeference
\* G exactly if G is its ResolvedGeoreference (the event's AddUniqueDynamic
\* keeps one entry per listener).
C17_SubscribedIffResolved ==
  OnGeoreferenceUpdated =
    (IF ResolvedGeoreference = None THEN {} ELSE {ResolvedGeoreference})

\* a registered component went from the default georeference to the
\* georeference of tileset T1
C17_Witness ==
  /\ op.name = "SetTileset"
  /\ registered
  /\ owner = "actor"
  /\ defaultGeoreference # None
  /\ ResolvedGeoreference = TilesetGeoreference(1)
  /\ OnGeoreferenceUpdated = {TilesetGeoreference(1)}

\* C18: ResolveGeoreference returns the Georeference property whenever that
\* property is set.  Stated for a level that has a default georeference.
C18_GeoreferencePropertyWins ==
  (/\ op.name = "ResolveGeoreference"
   /\ Georeference # None
   /\ defaultGeoreference # None
   /\ ~crashed)
  => /\ ret = Georeference
     /\ ResolvedGeoreference = Georeference

\* C19: ResolveGeoreference with a georeference already resolved returns it
\* and changes nothing: no subscription is added, nothing is pushed.
C19_ResolveIsCached ==
  [][(op'.name = "ResolveGeoreference" /\ ResolvedGeoreference # None)
     => /\ ret' = ResolvedGeoreference
        /\ UNCHANGED <<component, delegates, world>>
        /\ pushed' = <<>>
        /\ ~crashed' /\ ~undefined']_vars

\* ResolveGeoreference was called again on a registered, valid anchor whose
\* owner has a root: resolving afresh would have pushed the actor transform
C19_Witness ==
  /\ op.name = "ResolveGeoreference"
  /\ op.wasValid
  /\ registered
  /\ OwnerRootIsValid
  /\ ret # None
  /\ ret = ResolvedGeoreference
  /\ pushed = <<>>

\* C20: whenever an operation has ended with the validity flag true,
\* Longitude, Latitude and Height are the ECEF -> longitude/latitude/height
\* conversion of the globe transform's translation.  Stated for an owner
\* that is a plain actor and a resolved georeference.
C20_GeodeticMirror ==
  (/\ op.name # "constructor"
   /\ owner = "actor"
   /\ _worldToECEFIsValid
   /\ ResolvedGeoreference # None
   /\ ~crashed /\ ~undefined)
  => <<Longitude, Latitude, Height>> =
       TransformEcefToLongitudeLatitudeHeight(Translation(_worldToECEF))

\* the operations that write the globe transform: registration, the explicit
\* moves and the editor's edits of the position properties
WritesGlobeTransform ==
  \/ op.name \in Moves \cup {"OnRegister"}
  \/ /\ op.name = "PostEditChangeProperty"
     /\ op.arg[1] \in LLHProperties \cup ECEFProperties

\* C21: at the end of every operation that writes the globe transform
\* (OnRegister, MoveToECEF, MoveToLongitudeLatitudeHeight, an editor edit of
\* a position property), if the validity flag is true then ECEF_X, ECEF_Y
\* and ECEF_Z are the translation column of the globe transform.
C21_CartesianMirror ==
  (/\ WritesGlobeTransform
   /\ _worldToECEFIsValid
   /\ ~crashed /\ ~undefined)
  => <<ECEF_X, ECEF_Y, ECEF_Z>> = Translation(_worldToECEF)

\* the editor changed Height on a valid anchor with a resolved georeference,
\* and the Cartesian mirror follows the globe transform to the new position
C21_Witness ==
  /\ op.name = "PostEditChangeProperty"
  /\ op.arg[1] = "Height"
  /\ op.wasValid
  /\ _worldToECEFIsValid
  /\ ResolvedGeoreference # None
  /\ ~crashed /\ ~undefined
  /\ Translation(_worldToECEF)[1] = EllipsoidRadius + Height
  /\ Translation(_worldToECEF) # EcefTarget(0)
  /\ <<ECEF_X, ECEF_Y, ECEF_Z>> = Translation(_worldToECEF)

\* C22: no handler of the component runs nested inside the component's own
\* SetWorldTransform call on the owner's root, whatever the owner and the
\* resolved tileset are.
C22_PushNeverReenters ==
  ~reentered

\* C23: at every push of the actor transform inside MoveToECEF or
\* MoveToLongitudeLatitudeHeight, what a listener of the root's transform
\* event reads is consistent: ECEF_X, ECEF_Y, ECEF_Z are the translation of
\* the globe transform, and Longitude, Latitude, Height are its conversion.
C23_PushSeesConsistentMirrors ==
  (op.name \in Moves /\ ~crashed /\ ~undefined)
  => \A i \in 1..Len(pushed) :
       /\ pushed[i].ECEF = Translation(pushed[i].globe)
       /\ pushed[i].LLH =
            TransformEcefToLongitudeLatitudeHeight(Translation(pushed[i].globe))

\* there is no georeference to resolve: the level has none and none can be
\* created, the Tileset property names no tileset that has one, and none is
\* resolved
NoGeoreferenceAvailable ==
  /\ defaultGeoreference = None
  /\ Tileset = None \/ TilesetGeoreference(Tileset) = None
  /\ ResolvedGeoreference = None

\* C24: with no georeference available, OnRegister, MoveToECEF and the
\* editor's edits of the position properties complete without using the
\* missing georeference: the call returns, and it has not gone through a
\* null ACesiumGeoreference*.
C24_MissingGeoreferenceDegrades ==
  (/\ \/ op.name \in {"OnRegister", "MoveToECEF"}
      \/ /\ op.name = "PostEditChangeProperty"
         /\ op.arg[1] \in LLHProperties \cup ECEFProperties
   /\ NoGeoreferenceAvailable)
  => ~crashed /\ ~undefined

\* C25: while the owner is not valid or has no valid root component,
\* OnRegister, MoveToECEF, a georeference-changed notification and
\* ApplyWorldOffset push nothing and leave the globe transform, the validity
\* flag and the position properties as they were.
C25_MissingOwnerIsNoOp ==
  [][(/\ \/ op'.name \in {"OnRegister", "MoveToECEF", "ApplyWorldOffset"}
         \/ Notified(op', OnGeoreferenceUpdated)
      /\ ~OwnerRootIsValid)
     => /\ pushed' = <<>>
        /\ UNCHANGED <<_worldToECEF, _worldToECEFIsValid,
                       Longitude, Latitude, Height, ECEF_X, ECEF_Y, ECEF_Z>>]_vars

\* the state after the globe transform has been derived from the actor
\* transform in the current state
DerivedOnce == _updateGlobeTransformFromActorTransform(Cur(NoOutcome))

\* C26: deriving the globe transform from the actor transform a second time,
\* with the georeference, the origins, the tileset placement and the actor
\* transform as they are, gives the same globe transform and changes
\* nothing: no field of the component, no subscription, nothing pushed.  In
\* particular a derivation repeated right after the one OnRegister made
\* leaves the state as OnRegister left it.
C26_DerivationIdempotent ==
  /\ _updateGlobeTransformFromActorTransform(DerivedOnce) = DerivedOnce
  /\ RegistrationDerivedGlobe => DerivedOnce = Cur(NoOutcome)

\* OnRegister has derived the globe transform at a world origin and a
\* georeference origin that both have moved, and deriving again gives the
\* same state
C26_Witness ==
  /\ RegistrationDerivedGlobe
  /\ OriginLocation # 0
  /\ georeferenceOrigin[ResolvedGeoreference] # 0
  /\ Translation(_worldToECEF) # ZeroVector
  /\ _updateGlobeTransformFromActorTransform(DerivedOnce).worldToECEF = _worldToECEF

\* the operations that call ResolveGeoreference outside the position
\* handlers
Resolves ==
  op.name \in {"ResolveGeoreference", "OnRegister", "SetTileset", "SetTilesetTag",
               "GeoreferenceUpdated"}

\* C27: ResolveGeoreference, and every operation that calls it, returns: the
\* chain of nested calls it starts ends before the call stack is exhausted,
\* also on a valid anchor for which no georeference can be found.  Stated
\* for an owner that is a plain actor, where a push runs no handler.
C27_ResolveTerminates ==
  (Resolves /\ owner = "actor") => ~crashed

\* the root of the resolved tileset has moved and has notified the component
TilesetMoved ==
  /\ op.name = "TilesetTransformUpdated"
  /\ op.arg[1] = ResolvedTileset
  /\ TransformUpdated[op.arg[1]] > 0

\* C28: when the root of the resolved tileset changes its transform, the
\* globe transform and the validity flag stay as they were; on a valid anchor
\* whose owner has a root the actor transform is derived anew and pushed, as
\* (the tileset's new transform) * (ECEF -> Unreal matrix) * (globe
\* transform); on an invalid anchor nothing is pushed.
C28_TilesetMoveRederivesActor ==
  /\ [][op'.name = "TilesetTransformUpdated"
        => /\ _worldToECEF' = _worldToECEF
           /\ _worldToECEFIsValid' = _worldToECEFIsValid
           /\ ~undefined'
           /\ \A i \in 1..Len(pushed') : pushed'[i].globe = _worldToECEF]_vars
  /\ [](/\ TilesetMoved /\ ~op.wasValid => pushed = <<>> /\ ~crashed
        /\ (TilesetMoved /\ op.wasValid /\ OwnerRootIsValid /\ ~crashed)
           => /\ pushed # <<>>
              /\ ResolvedGeoreference # None
              /\ actorTransform = pushed[Len(pushed)].transform
              /\ actorTransform =
                   createMatrix(
                     Mul(TilesetPlacement(op.arg[2]),
                         Mul(GetEllipsoidCenteredToAbsoluteUnrealWorldTransform(
                               ResolvedGeoreference,
                               georeferenceOrigin[ResolvedGeoreference]),
                             _worldToECEF))))

\* the resolved tileset of a valid anchor moved to another placement and
\* the actor was moved with it
C28_Witness ==
  /\ TilesetMoved
  /\ op.arg[2] # 0
  /\ op.wasValid
  /\ owner = "actor"
  /\ ~crashed
  /\ Len(pushed) = 1
  /\ actorTransform = pushed[1].transform
  /\ actorTransform # ActorPlacement(0)

\* the rotation and scale block of a matrix: its three linear columns
RotationScale(M) == <<Vec3(M[1]), Vec3(M[2]), Vec3(M[3])>>

C30_SetTilesetTagStores ==
  (op.name = "SetTilesetTag" /\ ~crashed)
  => /\ TilesetTag = op.arg
     /\ Tileset = None => ResolvedTileset = FindTilesetByTag(op.arg)

\* the operations that call ResolveTileset
ResolvesTileset ==
  op.name \in {"OnRegister", "SetTileset", "SetTilesetTag"}

\* C31: after an operation that calls ResolveTileset, if a tileset is
\* resolved, whether it is the Tileset property or was found by its tag, the
\* resolved georeference is the georeference of that tileset.
C31_GeoreferenceOfResolvedTileset ==
  (ResolvesTileset /\ ResolvedTileset # None /\ ~crashed)
  => ResolvedGeoreference = TilesetGeoreference(ResolvedTileset)

\* C32: the component has an entry on TransformUpdated of a tileset's root
\* exactly if that tileset is its ResolvedTileset, and then one entry only
\* (AddUObject keeps no entry unique by itself).  Tileset actors have a root
\* component here.
C32_ListensToResolvedTilesetOnly ==
  \A t \in Tilesets :
    TransformUpdated[t] = (IF t = ResolvedTileset THEN 1 ELSE 0)

\* SetTileset gave a tileset to a component whose tag names another one,
\* T1: it listens to the root of the tileset given, and not to T1's
C32_Witness ==
  /\ op.name = "SetTileset"
  /\ op.arg \in Tilesets \ {1}
  /\ FindTilesetByTag(TilesetTag) = 1
  /\ ResolvedTileset = op.arg
  /\ TransformUpdated[op.arg] = 1
  /\ TransformUpdated[1] = 0

====
